---- MODULE Spec2Model ----
(***************************************************************************)
(* A model of outline_compiler.py: the OutlineCompiler class (the retrying *)
(* POST helper _make_request, the depth-first traversal, the anchor map,   *)
(* the mention-link rewriting, compile_collection and _generate_html) and  *)
(* main().                                                                 *)
(***************************************************************************)
EXTENDS Integers, Sequences, FiniteSets, TLC

\* Python's None, and a dict key that is absent (dict.get(key) gives None).
None == "<None>"

\* None where a markdown text (a sequence of elements) is expected
NoText == <<[kind |-> "<None>", n |-> 0, s |-> "", t |-> ""]>>

(***************************************************************************)
(* Bounds of the model.                                                    *)
(***************************************************************************)
\* Largest forest (number of navigation nodes) handed to the traversal alone.
MaxForestNodes == 4

\* Identifiers of navigation nodes and documents.
Ids == {"a", "b"}

(***************************************************************************)
(* Navigation forests: a node is [id, title, children], children a forest. *)
(* A node whose 'title' key is absent has title = None; an absent or empty *)
(* 'children' key is the empty sequence.                                   *)
(***************************************************************************)
RECURSIVE ForestsOfSize(_, _, _)
ForestsOfSize(n, ids, titles) ==
    IF n = 0 THEN {<<>>}
    ELSE UNION { { <<[id |-> i, title |-> t, children |-> c]>> \o rest :
                     i \in ids, t \in titles,
                     c \in ForestsOfSize(m - 1, ids, titles),
                     rest \in ForestsOfSize(n - m, ids, titles) } : m \in 1..n }

Forests(max, ids, titles) == UNION { ForestsOfSize(n, ids, titles) : n \in 0..max }

\* The paths of a forest: a path <<i1, .., ik>> names the ik-th child of ... of
\* the i1-th root; its node has k - 1 ancestors.
RECURSIVE Paths(_)
Paths(forest) ==
    UNION { {<<i>>} \cup { <<i>> \o p : p \in Paths(forest[i].children) } :
            i \in 1..Len(forest) }

RECURSIVE NodeAt(_, _)
NodeAt(forest, p) ==
    IF Len(p) = 1 THEN forest[p[1]]
    ELSE NodeAt(forest[p[1]].children, Tail(p))

(***************************************************************************)
(* OutlineCompiler.traverse_documents_dfs                                  *)
(***************************************************************************)
\* node.get('title', 'Untitled')
NodeTitle(node) == IF node.title = None THEN "Untitled" ELSE node.title

\* A traversal that emits all the nodes of a level before their children.
RECURSIVE traverse_level_first(_, _)
traverse_level_first(nodes, depth) ==
    IF nodes = <<>> THEN <<>>
    ELSE LET node == Head(nodes)
             children == node.children
         IN  << [doc_id |-> node.id, title |-> NodeTitle(node), depth |-> depth] >>
             \o traverse_level_first(Tail(nodes), depth)
             \o (IF children # <<>>
                 THEN traverse_level_first(children, depth + 1)
                 ELSE <<>>)

RECURSIVE traverse_documents_dfs(_, _)
traverse_documents_dfs(nodes, depth) ==
    IF nodes = <<>> THEN <<>>
    ELSE LET node == Head(nodes)
             children == node.children
         IN  << [doc_id |-> node.id, title |-> NodeTitle(node), depth |-> depth] >>
             \o (IF children # <<>>
                 THEN traverse_documents_dfs(children, depth + 1)
                 ELSE <<>>)
             \o traverse_documents_dfs(Tail(nodes), depth)

(***************************************************************************)
(* State.                                                                  *)
(***************************************************************************)
VARIABLES
    \* the remote Outline server: the content the API answers with
    server_desc,        \* the collection's description
    server_tree,        \* the collection's navigation forest
    server_text,        \* document id -> the document's markdown text
    faults,             \* the ways a request to this server can go wrong
    \* the OutlineCompiler instance
    max_retries,        \* self.max_retries
    retry_delay,        \* self.retry_delay
    \* the _make_request call in progress
    rq,                 \* "idle", "running", "returned" or "raised"
    request,            \* [endpoint, id]: the endpoint and the id of the payload
    attempt,            \* the loop variable of the retry loop
    posts,              \* number of requests.post calls made by this call
    sleeps,             \* the time.sleep delays of this call, in order
    last_resp,          \* what the latest requests.post gave (None before it)
    last_exception,     \* the local last_exception
    result,             \* the dict returned, or the exception raised
    only_transport,     \* history: every requests.post of this call raised so far
    \* main() and its callees
    pc,                 \* position in main / verify_auth / compile_collection
    exit_status,        \* None while running, else the status of sys.exit
    doc_tree,           \* compile_collection's doc_tree
    doc_list,           \* compile_collection's doc_list
    collection,         \* [name, description]: collection_name, collection_description
    fetch_i,            \* index in doc_list of the entry being fetched (1-based)
    documents_with_content, \* the retained [doc, depth] pairs
    doc_uuid_to_anchor, \* self.doc_uuid_to_anchor
    md_references,      \* self.md: the link references the converter has kept
    html,               \* _generate_html's html_parts: [head, toc, docs]
    render_i,           \* index of the document being rendered (1-based)
    output_file,        \* <<>> while no file is written, else <<the html written>>
    outcomes,           \* history: per entry of doc_list, the doc fetched or FetchFailed
    run,                \* number of the compile_collection call on this instance
    first,              \* history: what the first call read and wrote
    \* a call of _normalize_list_indentation on its own
    lines,              \* text.split('\n'), each line a sequence of characters
    normalized_lines    \* the lines joined into the value returned

request_vars == <<rq, request, attempt, posts, sleeps, last_resp, last_exception, result,
                  only_transport>>
normalize_vars == <<lines, normalized_lines>>
server_vars  == <<server_desc, server_tree, server_text, faults>>
config_vars  == <<max_retries, retry_delay>>
compile_vars == <<doc_tree, doc_list, collection, fetch_i, documents_with_content,
                  doc_uuid_to_anchor, md_references, html, render_i, output_file,
                  outcomes, run, first>>
vars == <<normalize_vars, server_vars, config_vars, request_vars, pc, exit_status, compile_vars>>

(***************************************************************************)
(* OutlineCompiler.__init__                                                *)
(***************************************************************************)
\* The defaults of the constructor, which main() relies on.
DefaultMaxRetries == 3
DefaultRetryDelay == 1

\* Largest max_retries given to the constructor by another caller.
MaxRetries == 3
\* Values of retry_delay given to the constructor by another caller.
RetryDelays == {1, 3}

(***************************************************************************)
(* What requests.post can do.  A transport failure is a RequestException   *)
(* raised by requests.post; authmsg tells whether its message contains the *)
(* words "Authentication failed".  Otherwise an HTTP response arrives with *)
(* a status and a body; json tells whether the body parses, and a parsed   *)
(* body has an 'ok' flag and a 'data' value (None when the key is absent). *)
(* jsonexc is the class response.json() raises for a body that does not    *)
(* parse: requests.exceptions.JSONDecodeError is a RequestException in     *)
(* recent releases of requests and a plain ValueError in older ones.       *)
(***************************************************************************)
HttpOk == 200
HttpCreated == 201
HttpUnauthorized == 401
HttpServerError == 500

Transport(auth) ==
    [kind |-> "exception", authmsg |-> auth, status |-> 0, json |-> FALSE,
     jsonexc |-> None, ok |-> FALSE, data |-> None]

\* No requests.post has been made yet.
NoResponse ==
    [kind |-> "none", authmsg |-> FALSE, status |-> 0, json |-> FALSE,
     jsonexc |-> None, ok |-> FALSE, data |-> None]

Http(status, json, jsonexc, ok, data) ==
    [kind |-> "response", authmsg |-> FALSE, status |-> status, json |-> json,
     jsonexc |-> jsonexc, ok |-> ok, data |-> data]

\* The title the server stores for a document.
TitleOf(id) == IF id = "a" THEN "A&B" ELSE "Doc " \o id

\* The 'data' value the server answers a request with.
ServerData(req) ==
    CASE req.endpoint = "auth.info" -> "user"
      [] req.endpoint = "collections.info" ->
             [name |-> "Handbook", description |-> server_desc]
      [] req.endpoint = "collections.documents" -> server_tree
      [] req.endpoint = "documents.info" ->
             [id |-> req.id, title |-> TitleOf(req.id), text |-> server_text[req.id],
              created_by |-> "dict"]

\* A parsed body without a 'data' key, as the caller of _make_request reads
\* it: result.get('data') is None in verify_auth, result.get('data', {}) is
\* the empty dict in get_collection_info and get_document_info, and
\* result.get('data', []) is the empty list in get_collection_documents.  A
\* dict is a record whose absent keys are None.  The 'createdBy' of a
\* document is None for an absent key, "dict" for a JSON object and "null"
\* for the JSON null, which Python reads as the value None.
NoData(req) ==
    CASE req.endpoint = "auth.info" -> None
      [] req.endpoint = "collections.info" -> [name |-> None, description |-> NoText]
      [] req.endpoint = "collections.documents" -> <<>>
      [] req.endpoint = "documents.info" ->
             [id |-> None, title |-> None, text |-> NoText, created_by |-> None]

\* The ways a request can go wrong; `faults` holds those that occur.
FaultKinds ==
    {"transport", "transport_auth", "unauthorized", "server_error", "created",
     "badjson", "notok", "nodata"}

\* what a requests.post that goes wrong in the way `fault` gives
Faulty(fault, req) ==
    CASE fault = "transport" -> { Transport(FALSE) }
      [] fault = "transport_auth" -> { Transport(TRUE) }
      [] fault = "unauthorized" -> { Http(HttpUnauthorized, FALSE, None, FALSE, None) }
      [] fault = "server_error" -> { Http(HttpServerError, FALSE, None, FALSE, None) }
      [] fault = "created" -> { Http(HttpCreated, TRUE, None, TRUE, ServerData(req)) }
      [] fault = "badjson" -> { Http(HttpOk, FALSE, x, FALSE, None) :
                                  x \in {"RequestException", "ValueError"} }
      [] fault = "notok" -> { Http(HttpOk, TRUE, None, FALSE, None) }
      [] fault = "nodata" -> { Http(HttpOk, TRUE, None, TRUE, NoData(req)) }

\* every outcome of one requests.post for the request req
Responses(req) ==
    { Http(HttpOk, TRUE, None, TRUE, ServerData(req)) }
    \cup UNION { Faulty(f, req) : f \in faults }

(***************************************************************************)
(* OutlineCompiler._make_request                                           *)
(***************************************************************************)
\* requests.Response.raise_for_status raises HTTPError for 4xx and 5xx.
RaisesForStatus(status) == status >= 400 /\ status < 600

\* A backoff that grows linearly with the attempt.
BackoffLinear(att) == retry_delay * (att + 1)

\* delay = self.retry_delay * (2 ** attempt)
Backoff(att) == retry_delay * (2 ^ att)

\* attempt < self.max_retries
MayRetry(att) == att < max_retries

\* The except clause: the RequestException exc, whose message contains
\* "Authentication failed" iff auth, raised in iteration att.
ExceptRequestException(exc, auth, att) ==
    IF auth THEN [do |-> "raise", exc |-> exc, last |-> exc]
    ELSE IF MayRetry(att) THEN [do |-> "sleep", exc |-> None, last |-> exc]
    ELSE [do |-> "raise", exc |-> exc, last |-> exc]

\* if response.status_code == 401: raise Exception("Authentication failed ...").
\* The exception is no RequestException, so the except clause lets it through.
OnUnauthorized(att) ==
    [do |-> "raise", exc |-> "Exception: Authentication failed (HTTP 401)",
     last |-> last_exception]

\* An ok:false answer handled like a failed request: retried while
\* attempts are left.
OnNotOkRetried(att) ==
    IF att < max_retries
    THEN [do |-> "sleep", exc |-> None, last |-> last_exception]
    ELSE [do |-> "raise", exc |-> "Exception: API error", last |-> last_exception]

\* if not result.get('ok', True): raise Exception("API error: ...")
OnNotOk(att) ==
    [do |-> "raise", exc |-> "Exception: API error", last |-> last_exception]

\* The body of the try in iteration att, given what requests.post did.
TryBody(resp, att) ==
    IF resp.kind = "exception"
    THEN ExceptRequestException("RequestException", resp.authmsg, att)
    ELSE IF resp.status = HttpUnauthorized
    THEN OnUnauthorized(att)
    ELSE IF resp.status # HttpOk /\ MayRetry(att)
    THEN [do |-> "sleep", exc |-> None, last |-> last_exception]
    ELSE IF resp.status # HttpOk /\ RaisesForStatus(resp.status)
    THEN ExceptRequestException("HTTPError", FALSE, att)
    ELSE IF ~resp.json
    THEN IF resp.jsonexc = "RequestException"
         THEN ExceptRequestException("JSONDecodeError", FALSE, att)
         ELSE [do |-> "raise", exc |-> "ValueError", last |-> last_exception]
    ELSE IF ~resp.ok
    THEN OnNotOk(att)
    ELSE [do |-> "return", exc |-> None, last |-> last_exception]

\* The caller enters _make_request(endpoint, {'id': id}).
MakeRequest(endpoint, id) ==
    /\ rq' = "running"
    /\ request' = [endpoint |-> endpoint, id |-> id]
    /\ attempt' = 0
    /\ posts' = 0
    /\ sleeps' = <<>>
    /\ last_resp' = NoResponse
    /\ last_exception' = None
    /\ result' = None
    /\ only_transport' = TRUE

\* The caller has taken the result or the exception of the call.
RequestOver ==
    /\ rq' = "idle"
    /\ request' = None
    /\ attempt' = 0
    /\ posts' = 0
    /\ sleeps' = <<>>
    /\ last_resp' = NoResponse
    /\ last_exception' = None
    /\ result' = None
    /\ only_transport' = TRUE

\* One iteration of `for attempt in range(self.max_retries + 1)`.
Attempt ==
    /\ rq = "running"
    /\ attempt <= max_retries
    /\ \E resp \in Responses(request) :
          LET t == TryBody(resp, attempt) IN
          /\ posts' = posts + 1
          /\ last_resp' = resp
          /\ last_exception' = t.last
          /\ only_transport' = (only_transport /\ resp.kind = "exception")
          /\ IF t.do = "sleep"
             THEN /\ sleeps' = Append(sleeps, Backoff(attempt))
                  /\ attempt' = attempt + 1
                  /\ UNCHANGED <<rq, result>>
             ELSE /\ rq' = IF t.do = "return" THEN "returned" ELSE "raised"
                  /\ result' = IF t.do = "return" THEN [ok |-> TRUE, data |-> resp.data]
                               ELSE t.exc
                  /\ UNCHANGED <<sleeps, attempt>>
    /\ UNCHANGED <<request, normalize_vars, server_vars, config_vars, pc, exit_status, compile_vars>>

(***************************************************************************)
(* main() with --verify-auth, and OutlineCompiler.verify_auth              *)
(***************************************************************************)
\* main() builds the compiler and calls verify_auth, which posts auth.info.
VerifyAuth ==
    /\ pc = "main"
    /\ pc' = "auth.info"
    /\ MakeRequest("auth.info", None)
    /\ UNCHANGED <<normalize_vars, server_vars, config_vars, exit_status, compile_vars>>

\* verify_auth returns True iff the call returned and result.get('data') is
\* truthy; an exception makes it return False; main exits 0 iff True.
VerifyAuthEnd ==
    /\ pc = "auth.info"
    /\ rq \in {"returned", "raised"}
    /\ exit_status' = IF rq = "returned" /\ result.data # None THEN 0 ELSE 1
    /\ pc' = "exit"
    /\ RequestOver
    /\ UNCHANGED <<normalize_vars, server_vars, config_vars, compile_vars>>

(***************************************************************************)
(* Markdown texts and HTML fragments.  A text is a sequence of blocks and  *)
(* inline elements, a fragment a sequence of elements; each is a record    *)
(* [kind, n, s, t].  Markdown:                                             *)
(*   "text"     a paragraph of plain text s                                *)
(*   "li"       a list item line "* s" with n leading spaces               *)
(*   "mermaid"  a fenced ```mermaid block whose raw body is s, a sequence  *)
(*              of tokens (pieces of whitespace and of other text); t is   *)
(*              "" for a block that is a paragraph of its own and "inline" *)
(*              for one that follows other text of its paragraph           *)
(*   "refdef"   a link reference definition "[s]: url"                     *)
(*   "refuse"   a reference-style link "[s]"                               *)
(*   "mention"  a mention "@[t](mention://team/document/s)"                *)
(* HTML:                                                                   *)
(*   "p"  "li" (n the nesting level)  "a" (s the target)                   *)
(*   "MERMAID_PLACEHOLDER" (bare) and "<p>MERMAID_PLACEHOLDER</p>", n the  *)
(*   number of the placeholder; "div.mermaid" with body s                  *)
(*   "a.mention" the '@<a href="mention://team/document/s">t</a>' of the   *)
(*   converter; "a.mention-link" (s the href, t the name) and              *)
(*   "span.mention-link-missing" (t the name) that replace it              *)
(***************************************************************************)
El(kind, n, s, t) == [kind |-> kind, n |-> n, s |-> s, t |-> t]

\* A test that takes every value, None and '' too, for true.
TruthyAlways(x) == TRUE

\* Python truthiness of a string or None.
Truthy(x) == x \notin {None, ""}

RECURSIVE MapSeq(_, _)
MapSeq(Op(_), seq) ==
    IF seq = <<>> THEN <<>> ELSE <<Op(Head(seq))>> \o MapSeq(Op, Tail(seq))

(***************************************************************************)
(* OutlineCompiler._build_doc_uuid_mapping                                 *)
(***************************************************************************)
\* f"doc-{i}"
Anchor(i) == "doc-" \o ToString(i)

\* d.setdefault(k, v): a key that is present keeps its value.
DictSetDefault(d, k, v) == [x \in DOMAIN d \cup {k} |-> IF x \in DOMAIN d THEN d[x] ELSE v]

\* d[k] = v on a dict d, modelled as a function on its keys
DictPut(d, k, v) == [x \in DOMAIN d \cup {k} |-> IF x = k THEN v ELSE d[x]]

\* the body of `for i, (doc, _) in enumerate(documents)`, from index i on
\* (1-based here, so the anchor of documents[i] is doc-(i-1))
RECURSIVE BuildMappingFrom(_, _, _)
BuildMappingFrom(documents, i, map) ==
    IF i > Len(documents) THEN map
    ELSE LET doc_id == documents[i].doc.id
         IN  BuildMappingFrom(documents, i + 1,
                 IF Truthy(doc_id) THEN DictPut(map, doc_id, Anchor(i - 1)) ELSE map)

BuildDocUuidMapping(documents) == BuildMappingFrom(documents, 1, <<>>)

(***************************************************************************)
(* OutlineCompiler._normalize_list_indentation                             *)
(***************************************************************************)
\* whitespace characters, which str.strip, lstrip and rstrip remove
Whitespace == {" ", "\n", "\t"}

\* str.lstrip() and str.rstrip() on a sequence of tokens
RECURSIVE LStrip(_)
LStrip(body) ==
    IF body # <<>> /\ Head(body) \in Whitespace THEN LStrip(Tail(body)) ELSE body

RECURSIVE RStrip(_)
RStrip(body) ==
    IF body # <<>> /\ body[Len(body)] \in Whitespace
    THEN RStrip(SubSeq(body, 1, Len(body) - 1))
    ELSE body

\* str.startswith on sequences of characters
StartsWith(line, prefix) ==
    Len(line) >= Len(prefix) /\ SubSeq(line, 1, Len(prefix)) = prefix

\* ' ' * n
Spaces(n) == [i \in 1..n |-> " "]

\* A loop body that looks for the '* ' marker only.
normalize_line_star_only(line) ==
    IF line # <<>> /\ StartsWith(LStrip(line), <<"*", " ">>)
    THEN LET leading_spaces == Len(line) - Len(LStrip(line))
         IN  IF leading_spaces > 0
             THEN Spaces(leading_spaces * 2) \o LStrip(line)
             ELSE line
    ELSE line

\* the body of `for line in lines`, on a line given character by character:
\* the value appended to normalized_lines
normalize_line(line) ==
    IF line # <<>> /\ (\/ StartsWith(LStrip(line), <<"*", " ">>)
                       \/ StartsWith(LStrip(line), <<"-", " ">>))
    THEN LET leading_spaces == Len(line) - Len(LStrip(line))
         IN  IF leading_spaces > 0
             THEN Spaces(leading_spaces * 2) \o LStrip(line)
             ELSE line
    ELSE line

\* _normalize_list_indentation on the lines of a text
normalize_list_indentation(text_lines) ==
    [i \in 1..Len(text_lines) |-> normalize_line(text_lines[i])]

\* The same on the elements of a document text: a list item line with n > 0
\* leading spaces gets 2n.
NormalizeLine(line) ==
    IF line.kind = "li" /\ line.n > 0 THEN [line EXCEPT !.n = line.n * 2] ELSE line

NormalizeListIndentation(text) == MapSeq(NormalizeLine, text)

(***************************************************************************)
(* OutlineCompiler._extract_mermaid_blocks, _restore_mermaid_blocks        *)
(***************************************************************************)
\* str.strip()
Strip(body) == RStrip(LStrip(body))

\* re.sub with replace_with_placeholder, from the blocks found so far
RECURSIVE ExtractFrom(_, _)
ExtractFrom(text, mermaid_blocks) ==
    IF text = <<>> THEN [text |-> <<>>, blocks |-> mermaid_blocks]
    ELSE LET b == Head(text) IN
         IF b.kind = "mermaid"
         THEN LET rest == ExtractFrom(Tail(text), Append(mermaid_blocks, Strip(b.s)))
              IN  [text |-> <<El("MERMAID_PLACEHOLDER", Len(mermaid_blocks), "", b.t)>>
                              \o rest.text,
                   blocks |-> rest.blocks]
         ELSE LET rest == ExtractFrom(Tail(text), mermaid_blocks)
              IN  [text |-> <<b>> \o rest.text, blocks |-> rest.blocks]

ExtractMermaidBlocks(text) == ExtractFrom(text, <<>>)

\* The decimal digits of i are a proper prefix of those of n, so that the
\* string MERMAID_PLACEHOLDER_i occurs in MERMAID_PLACEHOLDER_n.
IsDigitPrefix(i, n) == \E k \in 1..3 : n >= 10 ^ k /\ n \div (10 ^ k) = i

\* the digits of n that follow the digits of i (k digits, zeros included)
DigitsAfter(i, n) ==
    LET k == CHOOSE j \in 1..3 : n >= 10 ^ j /\ n \div (10 ^ j) = i
        r == n % (10 ^ k)
        zeros == IF k = 3 /\ r < 10 THEN "00"
                 ELSE IF (k = 3 /\ r < 100) \/ (k = 2 /\ r < 10) THEN "0"
                 ELSE ""
    IN  zeros \o ToString(r)

\* The two html.replace calls for placeholder i (0-based): the first turns
\* '<p>MERMAID_PLACEHOLDER_i</p>' into the div, the second every remaining
\* occurrence of the string 'MERMAID_PLACEHOLDER_i', also where it is the
\* beginning of a placeholder with a longer number (the digits that follow
\* stay behind, t holds them).
RestoreOne(fragment, i, mermaid_code) ==
    [k \in 1..Len(fragment) |->
        LET e == fragment[k] IN
        IF e.kind \in {"<p>MERMAID_PLACEHOLDER</p>", "MERMAID_PLACEHOLDER"}
        THEN IF e.n = i THEN El("div.mermaid", 0, mermaid_code, "")
             ELSE IF IsDigitPrefix(i, e.n)
             THEN El(IF e.kind = "MERMAID_PLACEHOLDER" THEN "div.mermaid+digits"
                     ELSE "<p>div.mermaid+digits</p>",
                     0, mermaid_code, DigitsAfter(i, e.n))
             ELSE e
        ELSE e]

RECURSIVE RestoreFrom(_, _, _)
RestoreFrom(fragment, mermaid_blocks, i) ==
    IF i >= Len(mermaid_blocks) THEN fragment
    ELSE RestoreFrom(RestoreOne(fragment, i, mermaid_blocks[i + 1]), mermaid_blocks, i + 1)

RestoreMermaidBlocks(fragment, mermaid_blocks) == RestoreFrom(fragment, mermaid_blocks, 0)

(***************************************************************************)
(* self.md, the markdown.Markdown instance built in __init__.  convert()   *)
(* keeps the link references a text defines (Markdown.references) until    *)
(* reset() is called, and resolves "[s]" against the references it holds.  *)
(***************************************************************************)
RefDefs(text) == { text[k].s : k \in { j \in 1..Len(text) : text[j].kind = "refdef" } }

ConvertBlock(b, refs) ==
    CASE b.kind = "text" -> El("p", 0, b.s, "")
      [] b.kind = "li" -> El("li", b.n \div 4, b.s, "")
      [] b.kind = "MERMAID_PLACEHOLDER" ->
            IF b.t = "inline" THEN El("MERMAID_PLACEHOLDER", b.n, "", "")
            ELSE El("<p>MERMAID_PLACEHOLDER</p>", b.n, "", "")
      [] b.kind = "refuse" ->
            IF b.s \in refs THEN El("a", 0, "url:" \o b.s, b.s)
            ELSE El("p", 0, "[" \o b.s \o "]", "")
      [] b.kind = "mention" -> El("a.mention", 0, b.s, b.t)
      [] OTHER -> b

IsRendered(b) == b.kind # "refdef"

\* self.md.convert(text) with the converter holding the references refs:
\* the fragment, and the references the converter holds afterwards
MdConvert(text, refs) ==
    LET known == refs \cup RefDefs(text)
        Block(b) == ConvertBlock(b, known)
    IN  [fragment |-> MapSeq(Block, SelectSeq(text, IsRendered)), refs |-> known]

\* A reset that leaves the references of the converter as they are.
MdKept == md_references

\* self.md.reset()
MdReset == {}

(***************************************************************************)
(* OutlineCompiler._process_mention_links                                  *)
(***************************************************************************)
\* A replace_mention that links to the document whether or not the anchor
\* map knows it.
ReplaceMentionAlwaysLink(el, anchors) ==
    El("a.mention-link", 0,
       "#" \o (IF el.s \in DOMAIN anchors THEN anchors[el.s] ELSE el.s), el.t)

\* replace_mention for a match with doc_uuid = el.s and doc_name = el.t;
\* anchor_id = self.doc_uuid_to_anchor.get(doc_uuid)
ReplaceMention(el, anchors) ==
    LET anchor_id == IF el.s \in DOMAIN anchors THEN anchors[el.s] ELSE None
    IN  IF Truthy(anchor_id)
        THEN El("a.mention-link", 0, "#" \o anchor_id, el.t)
        ELSE El("span.mention-link-missing", 0, "", el.t)

ProcessMentionLinks(fragment, anchors) ==
    [k \in 1..Len(fragment) |->
        IF fragment[k].kind = "a.mention"
        THEN ReplaceMention(fragment[k], anchors)
        ELSE fragment[k]]

(***************************************************************************)
(* OutlineCompiler._escape_html, and the dict.get calls with a default     *)
(***************************************************************************)
\* on the titles of the model: only "A&B" has a character to escape
EscapeHtml(text) ==
    IF ~Truthy(text) THEN ""
    ELSE IF text = "A&B" THEN "A&amp;B"
    ELSE text

\* doc.get('title', 'Untitled')
DocTitle(doc) == IF doc.title = None THEN "Untitled" ELSE doc.title

\* doc.get('text', '')
DocText(doc) == IF doc.text = NoText THEN <<>> ELSE doc.text

\* doc.get('createdBy', {}): the default stands in for an absent key only
CreatedBy(doc) == IF doc.created_by = None THEN "dict" ELSE doc.created_by

\* created_by.get('name', 'Unknown') raises AttributeError on None
CreatedByGetRaises(doc) == CreatedBy(doc) = "null"

\* f'depth-{depth}' if depth > 0 else ''
DepthClass(depth) == IF depth > 0 THEN "depth-" \o ToString(depth) ELSE ""

(***************************************************************************)
(* OutlineCompiler._generate_html                                          *)
(***************************************************************************)
\* html_parts before _generate_html has run.
NoHtml == [head |-> <<>>, toc |-> <<>>, docs |-> <<>>]

\* datetime.now().strftime(...): the clock may show any of these
Timestamps == {"2026-01-01 10:00:00", "2026-01-01 10:00:01"}

\* A table-of-contents entry numbered from 1 (enumerate(documents, 1)).
TocEntryFromOne(documents, i) ==
    [class |-> IF documents[i].depth > 0
               THEN "depth-" \o ToString(documents[i].depth) ELSE "",
     href  |-> "#doc-" \o ToString(i),
     title |-> IF documents[i].doc.title = None THEN "Untitled"
               ELSE IF documents[i].doc.title = "A&B" THEN "A&amp;B"
               ELSE documents[i].doc.title]

\* the <li> of the table of contents for documents[i] (1-based)
TocEntry(documents, i) ==
    [class |-> DepthClass(documents[i].depth),
     href  |-> "#" \o Anchor(i - 1),
     title |-> EscapeHtml(DocTitle(documents[i].doc))]

\* The body of the second loop up to content_html, for one document: the
\* text goes through normalisation, extraction, conversion by the converter
\* just reset, restoration and mention rewriting; an empty text gives the
\* 'No content' paragraph.
ContentHtml(doc, anchors) ==
    LET raw == DocText(doc)
        text == IF raw # <<>> THEN NormalizeListIndentation(raw) ELSE raw
        x == IF text # <<>> THEN ExtractMermaidBlocks(text)
             ELSE [text |-> text, blocks |-> <<>>]
        converted == IF x.text # <<>> THEN MdConvert(x.text, MdReset)
                     ELSE [fragment |-> <<El("p", 0, "<em>No content</em>", "")>>,
                           refs |-> MdReset]
        restored == IF x.blocks # <<>>
                    THEN RestoreMermaidBlocks(converted.fragment, x.blocks)
                    ELSE converted.fragment
    IN  [fragment |-> ProcessMentionLinks(restored, anchors), refs |-> converted.refs]

\* the <div class="document ..."> of documents[i] (1-based)
DocumentSection(documents, i, content_html) ==
    [class |-> "document " \o DepthClass(documents[i].depth),
     id |-> Anchor(i - 1),
     title |-> EscapeHtml(DocTitle(documents[i].doc)),
     content |-> content_html]

(***************************************************************************)
(* main() and OutlineCompiler.compile_collection                           *)
(***************************************************************************)
\* what a failed fetch leaves in the history `outcomes`
FetchFailed == [failed |-> TRUE]

\* collection.get('name', 'Unknown Collection')
CollectionName(data) == IF data.name = None THEN "Unknown Collection" ELSE data.name

\* collection.get('description', '')
CollectionDescription(data) == IF data.description = NoText THEN <<>> ELSE data.description

\* compile_collection is entered, with its locals not yet set:
\* get_collection_info posts collections.info.  The instance keeps
\* self.doc_uuid_to_anchor and self.md, and the file system the file.
CompileCollection ==
    /\ MakeRequest("collections.info", "collection")
    /\ pc' = "collections.info"
    /\ collection' = [name |-> None, description |-> NoText]
    /\ doc_tree' = <<>>
    /\ doc_list' = <<>>
    /\ fetch_i' = 0
    /\ documents_with_content' = <<>>
    /\ html' = NoHtml
    /\ render_i' = 0
    /\ outcomes' = <<>>
    /\ UNCHANGED <<normalize_vars, server_vars, config_vars, exit_status, doc_uuid_to_anchor,
                   md_references, output_file>>

\* main() builds the compiler with the default retry settings and calls
\* compile_collection.
MainCompile ==
    /\ pc = "main"
    /\ CompileCollection
    /\ UNCHANGED <<run, first>>

\* A caller that keeps the instance calls compile_collection a second time,
\* with the same collection and the same output path.
CompileAgain ==
    /\ pc = "compiled"
    /\ run = 1
    /\ run' = 2
    /\ first' = [output |-> output_file, outcomes |-> outcomes, collection |-> collection]
    /\ CompileCollection

\* get_collection_info has returned; get_collection_documents posts
\* collections.documents.
CollectionInfoReturn ==
    /\ pc = "collections.info"
    /\ rq = "returned"
    /\ collection' = [name |-> CollectionName(result.data),
                      description |-> CollectionDescription(result.data)]
    /\ MakeRequest("collections.documents", "collection")
    /\ pc' = "collections.documents"
    /\ UNCHANGED <<normalize_vars, server_vars, config_vars, exit_status, doc_tree, doc_list, fetch_i,
                   documents_with_content, doc_uuid_to_anchor, md_references, html,
                   render_i, output_file, outcomes, run, first>>

\* get_collection_documents has returned: the tree is traversed and the
\* fetch loop begins with an empty documents_with_content.
CollectionDocumentsReturn ==
    /\ pc = "collections.documents"
    /\ rq = "returned"
    /\ doc_tree' = result.data
    /\ doc_list' = traverse_documents_dfs(result.data, 0)
    /\ documents_with_content' = <<>>
    /\ fetch_i' = 1
    /\ pc' = "fetch"
    /\ RequestOver
    /\ UNCHANGED <<normalize_vars, server_vars, config_vars, exit_status, collection,
                   doc_uuid_to_anchor, md_references, html, render_i, output_file,
                   outcomes, run, first>>

\* A compile_collection that catches the exception of the metadata or tree
\* fetch and goes on with an empty document list.
CompileRaisesCaught ==
    /\ pc \in {"collections.info", "collections.documents"}
    /\ rq = "raised"
    /\ doc_list' = <<>>
    /\ documents_with_content' = <<>>
    /\ fetch_i' = 1
    /\ pc' = "fetch"
    /\ rq' = "idle"
    /\ request' = None
    /\ attempt' = 0
    /\ posts' = 0
    /\ sleeps' = <<>>
    /\ last_resp' = NoResponse
    /\ last_exception' = None
    /\ result' = None
    /\ only_transport' = TRUE
    /\ UNCHANGED <<normalize_vars, server_vars, config_vars, exit_status, doc_tree, collection,
                   doc_uuid_to_anchor, md_references, html, render_i, output_file,
                   outcomes, run, first>>

\* get_collection_info or get_collection_documents has raised: nothing in
\* compile_collection catches the exception, which leaves it.
CompileRaises ==
    /\ pc \in {"collections.info", "collections.documents"}
    /\ rq = "raised"
    /\ pc' = "raised"
    /\ RequestOver
    /\ UNCHANGED <<normalize_vars, server_vars, config_vars, exit_status, compile_vars>>

\* the next iteration of the fetch loop: get_document_info(doc_id) posts
\* documents.info
FetchDocument ==
    /\ pc = "fetch"
    /\ rq = "idle"
    /\ fetch_i <= Len(doc_list)
    /\ MakeRequest("documents.info", doc_list[fetch_i].doc_id)
    /\ UNCHANGED <<normalize_vars, server_vars, config_vars, pc, exit_status, compile_vars>>

\* A fetch loop that enters each document in the anchor map as it arrives.
FetchReturnMapping ==
    /\ pc = "fetch"
    /\ rq = "returned"
    /\ documents_with_content' =
           Append(documents_with_content,
                  [doc |-> result.data, depth |-> doc_list[fetch_i].depth])
    /\ doc_uuid_to_anchor' = BuildDocUuidMapping(documents_with_content')
    /\ outcomes' = Append(outcomes, result.data)
    /\ fetch_i' = fetch_i + 1
    /\ RequestOver
    /\ UNCHANGED <<normalize_vars, server_vars, config_vars, pc, exit_status, doc_tree,
                   doc_list, collection, md_references, html, render_i, output_file,
                   run, first>>

\* get_document_info has returned: documents_with_content.append((doc, depth))
FetchReturn ==
    /\ pc = "fetch"
    /\ rq = "returned"
    /\ documents_with_content' =
           Append(documents_with_content,
                  [doc |-> result.data, depth |-> doc_list[fetch_i].depth])
    /\ outcomes' = Append(outcomes, result.data)
    /\ fetch_i' = fetch_i + 1
    /\ RequestOver
    /\ UNCHANGED <<normalize_vars, server_vars, config_vars, pc, exit_status, doc_tree, doc_list,
                   collection, doc_uuid_to_anchor, md_references, html, render_i,
                   output_file, run, first>>

\* A fetch loop without the try: the exception of get_document_info leaves
\* compile_collection.
FetchExceptUncaught ==
    /\ pc = "fetch"
    /\ rq = "raised"
    /\ pc' = "raised"
    /\ rq' = "idle"
    /\ request' = None
    /\ attempt' = 0
    /\ posts' = 0
    /\ sleeps' = <<>>
    /\ last_resp' = NoResponse
    /\ last_exception' = None
    /\ result' = None
    /\ only_transport' = TRUE
    /\ UNCHANGED <<normalize_vars, server_vars, config_vars, exit_status, compile_vars>>

\* get_document_info has raised: `except Exception` prints the warning and
\* the loop goes on
FetchExcept ==
    /\ pc = "fetch"
    /\ rq = "raised"
    /\ outcomes' = Append(outcomes, FetchFailed)
    /\ fetch_i' = fetch_i + 1
    /\ RequestOver
    /\ UNCHANGED <<normalize_vars, server_vars, config_vars, pc, exit_status, doc_tree, doc_list,
                   collection, documents_with_content, doc_uuid_to_anchor,
                   md_references, html, render_i, output_file, run, first>>

\* the fetch loop is over: self._build_doc_uuid_mapping(documents_with_content)
BuildMapping ==
    /\ pc = "fetch"
    /\ rq = "idle"
    /\ fetch_i > Len(doc_list)
    /\ doc_uuid_to_anchor' = BuildDocUuidMapping(documents_with_content)
    /\ pc' = "generate"
    /\ UNCHANGED <<normalize_vars, server_vars, config_vars, request_vars, exit_status, doc_tree,
                   doc_list, collection, fetch_i, documents_with_content,
                   md_references, html, render_i, output_file, outcomes, run, first>>

\* _generate_html up to the end of the table of contents: the header with
\* the timestamp, the description converted by self.md as it stands, and one
\* <li> per document.
GenerateHead ==
    /\ pc = "generate"
    /\ \E timestamp \in Timestamps :
          LET description == collection.description
              desc == IF description # <<>> THEN MdConvert(description, md_references)
                      ELSE [fragment |-> <<>>, refs |-> md_references]
          IN  /\ html' = [head |-> [title |-> EscapeHtml(collection.name),
                                    timestamp |-> timestamp,
                                    description |-> IF description # <<>>
                                                    THEN <<desc.fragment>> ELSE <<>>],
                          toc |-> [i \in 1..Len(documents_with_content) |->
                                      TocEntry(documents_with_content, i)],
                          docs |-> <<>>]
              /\ md_references' = desc.refs
    /\ render_i' = 1
    /\ pc' = "render"
    /\ UNCHANGED <<normalize_vars, server_vars, config_vars, request_vars, exit_status, doc_tree,
                   doc_list, collection, fetch_i, documents_with_content,
                   doc_uuid_to_anchor, output_file, outcomes, run, first>>

\* one iteration of the second loop of _generate_html
RenderDocument ==
    /\ pc = "render"
    /\ render_i <= Len(documents_with_content)
    /\ ~CreatedByGetRaises(documents_with_content[render_i].doc)
    /\ LET c == ContentHtml(documents_with_content[render_i].doc, doc_uuid_to_anchor)
       IN  /\ html' = [html EXCEPT !.docs =
                          Append(@, DocumentSection(documents_with_content, render_i,
                                                    c.fragment))]
           /\ md_references' = c.refs
    /\ render_i' = render_i + 1
    /\ UNCHANGED <<normalize_vars, server_vars, config_vars, request_vars, pc, exit_status, doc_tree,
                   doc_list, collection, fetch_i, documents_with_content,
                   doc_uuid_to_anchor, output_file, outcomes, run, first>>

\* an iteration of the second loop in which created_by.get raises: the
\* AttributeError leaves _generate_html and compile_collection
RenderRaises ==
    /\ pc = "render"
    /\ render_i <= Len(documents_with_content)
    /\ CreatedByGetRaises(documents_with_content[render_i].doc)
    /\ pc' = "raised"
    /\ UNCHANGED <<normalize_vars, server_vars, config_vars, request_vars, exit_status, compile_vars>>

\* _generate_html returns and compile_collection writes the file
WriteOutput ==
    /\ pc = "render"
    /\ render_i > Len(documents_with_content)
    /\ output_file' = <<html>>
    /\ pc' = "compiled"
    /\ UNCHANGED <<normalize_vars, server_vars, config_vars, request_vars, exit_status, doc_tree,
                   doc_list, collection, fetch_i, documents_with_content,
                   doc_uuid_to_anchor, md_references, html, render_i, outcomes, run, first>>

\* compile_collection has returned to main(), which ends: exit status 0
MainEnd ==
    /\ pc = "compiled"
    /\ pc' = "exit"
    /\ exit_status' = 0
    /\ UNCHANGED <<normalize_vars, server_vars, config_vars, request_vars, compile_vars>>

\* main()'s `except Exception`: print the error, sys.exit(1)
MainExcept ==
    /\ pc = "raised"
    /\ pc' = "exit"
    /\ exit_status' = 1
    /\ UNCHANGED <<normalize_vars, server_vars, config_vars, request_vars, compile_vars>>

(***************************************************************************)
(* Initial states.                                                         *)
(***************************************************************************)
\* before a second call of compile_collection
NoFirst == [output |-> <<>>, outcomes |-> <<>>,
            collection |-> [name |-> None, description |-> NoText]]

InitIdle ==
    /\ rq = "idle"
    /\ request = None
    /\ attempt = 0
    /\ posts = 0
    /\ sleeps = <<>>
    /\ last_resp = NoResponse
    /\ last_exception = None
    /\ result = None
    /\ only_transport = TRUE
    /\ exit_status = None
    /\ doc_list = <<>>
    /\ collection = [name |-> None, description |-> NoText]
    /\ fetch_i = 0
    /\ documents_with_content = <<>>
    /\ doc_uuid_to_anchor = <<>>
    /\ md_references = {}
    /\ html = NoHtml
    /\ render_i = 0
    /\ output_file = <<>>
    /\ outcomes = <<>>
    /\ run = 1
    /\ first = NoFirst
    /\ lines = <<>>
    /\ normalized_lines = <<>>

\* An OutlineCompiler built with any max_retries and retry_delay, used to
\* verify the API key.
InitRequest ==
    /\ server_desc = <<>>
    /\ server_tree = <<>>
    /\ server_text = [i \in Ids |-> <<>>]
    /\ faults = FaultKinds
    /\ max_retries \in 0..MaxRetries
    /\ retry_delay \in RetryDelays
    /\ InitIdle
    /\ pc = "main"
    /\ doc_tree = <<>>

(***************************************************************************)
(* The program: main() on a server holding any small collection.           *)
(***************************************************************************)
\* Largest navigation forest of the collection.
MaxNodes == 3

RefDef == El("refdef", 0, "r", "")
RefUse == El("refuse", 0, "r", "")
Mention(id) == El("mention", 0, id, "see " \o id)

\* the markdown texts a document may have
Texts ==
    { <<>>,
      <<RefDef, Mention("a"), El("li", 2, "item", "")>>,
      <<RefUse, Mention("zz"), El("mermaid", 0, <<" ", "A-->B", "\n">>, "")>> }

\* the markdown texts the collection description may have
Descriptions == { <<>>, <<RefUse>> }

\* The faults of the runs of the whole program: a transport failure, an
\* ok:false answer, an answer without data.
ProgramFaults == {"transport", "notok", "nodata"}

Init ==
    /\ server_desc = <<RefUse>>
    /\ server_tree \in Forests(MaxNodes, Ids, {"T"})
    /\ server_text = [i \in Ids |-> IF i = "a"
                                    THEN <<RefDef, Mention("b"), El("li", 2, "item", "")>>
                                    ELSE <<RefUse, Mention("zz"),
                                           El("mermaid", 0, <<" ", "A-->B", "\n">>, "")>>]
    /\ faults = ProgramFaults
    /\ max_retries = DefaultMaxRetries
    /\ retry_delay = DefaultRetryDelay
    /\ InitIdle
    /\ pc = "main"
    /\ doc_tree = <<>>

Next ==
    \/ VerifyAuth
    \/ VerifyAuthEnd
    \/ MainCompile
    \/ Attempt
    \/ CollectionInfoReturn
    \/ CollectionDocumentsReturn
    \/ CompileRaises
    \/ FetchDocument
    \/ FetchReturn
    \/ FetchExcept
    \/ BuildMapping
    \/ GenerateHead
    \/ RenderDocument
    \/ WriteOutput
    \/ MainEnd
    \/ MainExcept

Spec == Init /\ [][Next]_vars

(***************************************************************************)
(* A caller that builds one OutlineCompiler and compiles the collection    *)
(* twice with it.                                                          *)
(***************************************************************************)
\* Largest navigation forest of the collection compiled twice.
MaxRerunNodes == 1

InitRerun ==
    /\ server_desc \in Descriptions
    /\ server_tree \in Forests(MaxRerunNodes, Ids, {"T"})
    /\ server_text \in [Ids -> Texts]
    /\ faults = {"notok"}
    /\ max_retries = DefaultMaxRetries
    /\ retry_delay = DefaultRetryDelay
    /\ InitIdle
    /\ pc = "main"
    /\ doc_tree = <<>>

NextRerun ==
    \/ MainCompile
    \/ CompileAgain
    \/ Attempt
    \/ CollectionInfoReturn
    \/ CollectionDocumentsReturn
    \/ CompileRaises
    \/ FetchDocument
    \/ FetchReturn
    \/ FetchExcept
    \/ BuildMapping
    \/ GenerateHead
    \/ RenderDocument
    \/ WriteOutput

SpecRerun == InitRerun /\ [][NextRerun]_vars

(***************************************************************************)
(* _generate_html alone, on any small list of retained documents: the      *)
(* state after _build_doc_uuid_mapping for documents with any text and any *)
(* 'createdBy', or for one document with up to MaxBlocks mermaid blocks.   *)
(***************************************************************************)
\* Largest number of retained documents handed to _generate_html.
MaxRenderDocs == 2
\* Largest number of mermaid blocks of a document.
MaxBlocks == 11

\* documents with an absent, an empty or a plain text, and with an absent,
\* a null or an object 'createdBy'
RenderDoc(kind) ==
    [id |-> "a", title |-> "T",
     text |-> CASE kind[1] = "absent" -> NoText
                [] kind[1] = "empty" -> <<>>
                [] kind[1] = "plain" -> <<El("text", 0, "hello", "")>>,
     created_by |-> kind[2]]

RenderDocKinds == {"absent", "empty", "plain"} \X {None, "null", "dict"}

\* the text of k mermaid blocks, the n-th with the body " G<n-1>\n" (0-based)
RECURSIVE MermaidTextFrom(_, _)
MermaidTextFrom(wrap, n) ==
    IF n > Len(wrap) THEN <<>>
    ELSE <<El("mermaid", 0, <<" ", "G" \o ToString(n - 1), "\n">>, wrap[n])>>
         \o MermaidTextFrom(wrap, n + 1)

MermaidText(wrap) == MermaidTextFrom(wrap, 1)

MermaidDoc(wrap) ==
    [id |-> "a", title |-> "T", text |-> MermaidText(wrap), created_by |-> "dict"]

MermaidWraps == UNION { [1..k -> {"", "inline"}] : k \in 1..MaxBlocks }

\* the state when _generate_html is called with the documents docs
InitGenerate(docs) ==
    /\ doc_tree = [i \in 1..Len(docs) |-> [id |-> "a", title |-> "T", children |-> <<>>]]
    /\ doc_list = [i \in 1..Len(docs) |-> [doc_id |-> "a", title |-> "T", depth |-> 0]]
    /\ fetch_i = Len(docs) + 1
    /\ documents_with_content = [i \in 1..Len(docs) |-> [doc |-> docs[i], depth |-> 0]]
    /\ outcomes = docs
    /\ doc_uuid_to_anchor
           = BuildDocUuidMapping([i \in 1..Len(docs) |-> [doc |-> docs[i], depth |-> 0]])

InitRender ==
    /\ server_desc = <<>>
    /\ server_tree = <<>>
    /\ server_text = [i \in Ids |-> <<>>]
    /\ faults = {}
    /\ max_retries = DefaultMaxRetries
    /\ retry_delay = DefaultRetryDelay
    /\ rq = "idle"
    /\ request = None
    /\ attempt = 0
    /\ posts = 0
    /\ sleeps = <<>>
    /\ last_resp = NoResponse
    /\ last_exception = None
    /\ result = None
    /\ only_transport = TRUE
    /\ exit_status = None
    /\ pc = "generate"
    /\ collection = [name |-> "Handbook", description |-> <<>>]
    /\ \/ \E n \in 0..MaxRenderDocs : \E kinds \in [1..n -> RenderDocKinds] :
              InitGenerate([i \in 1..n |-> RenderDoc(kinds[i])])
       \/ \E wrap \in MermaidWraps : InitGenerate(<<MermaidDoc(wrap)>>)
    /\ md_references = {}
    /\ html = NoHtml
    /\ render_i = 0
    /\ output_file = <<>>
    /\ run = 1
    /\ first = NoFirst
    /\ lines = <<>>
    /\ normalized_lines = <<>>

NextRender ==
    \/ GenerateHead
    \/ RenderDocument
    \/ RenderRaises
    \/ WriteOutput

SpecRender == InitRender /\ [][NextRender]_vars

(***************************************************************************)
(* _normalize_list_indentation alone, on texts of one or two lines of at   *)
(* most MaxLineLen characters.                                             *)
(***************************************************************************)
MaxLineLen == 4

\* the characters of a line: a space, a tab, the two list markers, a letter
LineChars == {" ", "\t", "*", "-", "x"}

Lines == UNION { [1..n -> LineChars] : n \in 0..MaxLineLen }

\* the line "  - x"
NestedItem == <<" ", " ", "-", " ", "x">>

InitNormalize ==
    /\ server_desc = <<>>
    /\ server_tree = <<>>
    /\ server_text = [i \in Ids |-> <<>>]
    /\ faults = {}
    /\ max_retries = DefaultMaxRetries
    /\ retry_delay = DefaultRetryDelay
    /\ rq = "idle"
    /\ request = None
    /\ attempt = 0
    /\ posts = 0
    /\ sleeps = <<>>
    /\ last_resp = NoResponse
    /\ last_exception = None
    /\ result = None
    /\ only_transport = TRUE
    /\ exit_status = None
    /\ pc = "normalize"
    /\ doc_tree = <<>>
    /\ doc_list = <<>>
    /\ collection = [name |-> None, description |-> NoText]
    /\ fetch_i = 0
    /\ documents_with_content = <<>>
    /\ doc_uuid_to_anchor = <<>>
    /\ md_references = {}
    /\ html = NoHtml
    /\ render_i = 0
    /\ output_file = <<>>
    /\ outcomes = <<>>
    /\ run = 1
    /\ first = NoFirst
    /\ \E line \in Lines : lines \in {<<line>>, <<line, NestedItem>>, <<NestedItem, line>>}
    /\ normalized_lines = <<>>

\* text = self._normalize_list_indentation(text)
Normalize ==
    /\ pc = "normalize"
    /\ normalized_lines' = normalize_list_indentation(lines)
    /\ pc' = "normalized"
    /\ UNCHANGED <<lines, server_vars, config_vars, request_vars, exit_status, compile_vars>>

SpecNormalize == InitNormalize /\ [][Normalize]_vars

NextRequest == VerifyAuth \/ Attempt \/ VerifyAuthEnd

SpecRequest == InitRequest /\ [][NextRequest]_vars

(***************************************************************************)
(* The traversal alone, on any forest of at most MaxForestNodes nodes.     *)
(***************************************************************************)
InitTraverse ==
    /\ server_desc = <<>>
    /\ server_tree = <<>>
    /\ server_text = [i \in Ids |-> <<>>]
    /\ faults = {}
    /\ max_retries = DefaultMaxRetries
    /\ retry_delay = DefaultRetryDelay
    /\ InitIdle
    /\ pc = "traverse"
    /\ doc_tree \in Forests(MaxForestNodes, Ids, {None, "T"})

\* doc_list = self.traverse_documents_dfs(doc_tree)
Traverse ==
    /\ pc = "traverse"
    /\ doc_list' = traverse_documents_dfs(doc_tree, 0)
    /\ pc' = "traversed"
    /\ UNCHANGED <<doc_tree, normalize_vars, server_vars, config_vars, request_vars, exit_status,
                   collection, fetch_i, documents_with_content, doc_uuid_to_anchor,
                   md_references, html, render_i, output_file, outcomes, run, first>>

SpecTraverse == InitTraverse /\ [][Traverse]_vars

(***************************************************************************)
(* Properties of the traversal.                                            *)
(***************************************************************************)
\* Node q comes before node p in pre-order: q is a proper ancestor of p, or q
\* lies in the subtree of a preceding sibling of p or of an ancestor of p.
ComesBefore(q, p) ==
    \/ Len(q) < Len(p) /\ SubSeq(p, 1, Len(q)) = q
    \/ \E k \in 1..Len(q) :
          /\ k <= Len(p)
          /\ SubSeq(q, 1, k - 1) = SubSeq(p, 1, k - 1)
          /\ q[k] < p[k]

\* The place of the node at path p in the pre-order of the forest.
PreOrderIndex(forest, p) ==
    1 + Cardinality({ q \in Paths(forest) : ComesBefore(q, p) })

\* C1: the traversal has one entry per node; the entry of a node stands after
\* exactly the nodes that come before it in pre-order (its ancestors and the
\* complete subtrees of the preceding siblings of it and of its ancestors),
\* and carries the node's id, its title and its number of ancestors.
C1_TraversePreOrder ==
    pc = "traversed"
        => /\ Len(doc_list) = Cardinality(Paths(doc_tree))
           /\ \A p \in Paths(doc_tree) :
                 doc_list[PreOrderIndex(doc_tree, p)]
                     = [doc_id |-> NodeAt(doc_tree, p).id,
                        title  |-> NodeTitle(NodeAt(doc_tree, p)),
                        depth  |-> Len(p) - 1]

\* C1 witness: a root with a child and a grandchild, followed by a second
\* root, has been traversed.
C1_Witness ==
    /\ pc = "traversed"
    /\ Len(doc_tree) = 2
    /\ Len(doc_list) = 4
    /\ doc_list[3].depth = 2
    /\ doc_list[4].depth = 0
    /\ doc_list[1].doc_id # doc_list[4].doc_id

(***************************************************************************)
(* Properties of _make_request.                                            *)
(***************************************************************************)
\* A response the code never retries: HTTP 401, or a well-formed HTTP 200
\* body with ok:false.
NonRetryable(resp) ==
    /\ resp.kind = "response"
    /\ \/ resp.status = HttpUnauthorized
       \/ resp.status = HttpOk /\ resp.json /\ ~resp.ok

FailureOf(resp) ==
    IF resp.status = HttpUnauthorized
    THEN "Exception: Authentication failed (HTTP 401)"
    ELSE "Exception: API error"

\* C7: a step of _make_request that receives an HTTP 401 response or a
\* well-formed HTTP 200 response with ok:false raises that failure to the
\* caller at once, without sleeping, whatever the attempt and max_retries
\* are; and once the call has raised, it posts no further request.
C7_NonRetryableNeverRetried ==
    [][ /\ (posts' = posts + 1 /\ NonRetryable(last_resp'))
            => /\ rq' = "raised"
               /\ result' = FailureOf(last_resp')
               /\ sleeps' = sleeps
               /\ attempt' = attempt
        /\ rq = "raised" => (posts' <= posts /\ rq' \in {"raised", "idle"})
      ]_vars

\* C7 witness: an ok:false answer on the second attempt, with retries left,
\* has ended the call.
C7_Witness ==
    /\ rq = "raised"
    /\ attempt = 1
    /\ max_retries >= 2
    /\ posts = 2
    /\ last_resp.status = HttpOk
    /\ result = "Exception: API error"

\* The waits of a call all of whose max_retries + 1 attempts were retried.
FullBackoff == [k \in 1..max_retries |-> retry_delay * (2 ^ (k - 1))]

\* C8 as stated: whenever every attempt of a call failed at the transport
\* level and the call has raised, exactly max_retries + 1 requests were sent,
\* with the waits retry_delay * 2^k between them and none after the last.
C8_AsStated ==
    (rq = "raised" /\ only_transport)
        => /\ posts = max_retries + 1
           /\ sleeps = FullBackoff
           /\ result = "RequestException"

\* C8 amended: the same for transport failures whose message does not contain
\* "Authentication failed" (such a failure is raised at once, without a wait);
\* and a call that returns gives the data of its last response, having sent
\* one request per attempt and retry_delay * 2^k after each failed attempt k.
C8_TransportRetriedWithBackoff ==
    /\ (rq = "raised" /\ only_transport)
        => IF last_resp.authmsg
           THEN /\ posts = attempt + 1
                /\ sleeps = SubSeq(FullBackoff, 1, attempt)
                /\ result = "RequestException"
           ELSE /\ posts = max_retries + 1
                /\ sleeps = FullBackoff
                /\ result = "RequestException"
    /\ rq = "returned"
        => /\ result = [ok |-> TRUE, data |-> last_resp.data]
           /\ posts = attempt + 1
           /\ sleeps = SubSeq(FullBackoff, 1, attempt)
    /\ (rq = "running" /\ only_transport)
        => /\ posts = attempt
           /\ sleeps = SubSeq(FullBackoff, 1, attempt)

\* C8 witness: all max_retries + 1 >= 3 attempts failed at the transport
\* level and the last error was raised after the full backoff.
C8_Witness ==
    /\ rq = "raised"
    /\ only_transport
    /\ ~last_resp.authmsg
    /\ max_retries >= 2
    /\ retry_delay = 3
    /\ posts = max_retries + 1
    /\ Len(sleeps) = max_retries

(***************************************************************************)
(* Properties of compile_collection and main().                            *)
(***************************************************************************)
\* the anchor map has been built from the documents retained by this run
Mapped ==
    \/ pc \in {"generate", "render", "compiled"}
    \/ pc = "exit" /\ output_file # <<>>

\* the indices in doc_list of the entries whose fetch succeeded, in order
Fetched ==
    SelectSeq([i \in 1..Len(outcomes) |-> i], LAMBDA i : outcomes[i] # FetchFailed)

\* the identifier of the i-th retained document (None when it carries none)
RetainedId(i) == documents_with_content[i].doc.id

AnchorTokens == { doc_uuid_to_anchor[k] : k \in DOMAIN doc_uuid_to_anchor }

\* C2 as stated: the anchor tokens of the map built from n retained documents
\* are exactly doc-0 .. doc-(n-1), each the token of one key.
C2_AsStated ==
    Mapped
        => LET n == Len(documents_with_content) IN
           /\ AnchorTokens = { "doc-" \o ToString(i) : i \in 0..(n - 1) }
           /\ Cardinality(DOMAIN doc_uuid_to_anchor) = n

\* C2 amended: the anchor tokens are tokens among doc-0 .. doc-(n-1), no two
\* keys share one, and doc-i is a token exactly when retained document i
\* carries a non-empty identifier that no later retained document carries:
\* it is then the token of that identifier.  So the tokens are exactly
\* doc-0 .. doc-(n-1) when the n identifiers are non-empty and distinct.
C2_AnchorTokens ==
    Mapped
        => LET n == Len(documents_with_content) IN
           /\ AnchorTokens \subseteq { "doc-" \o ToString(i) : i \in 0..(n - 1) }
           /\ Cardinality(AnchorTokens) = Cardinality(DOMAIN doc_uuid_to_anchor)
           /\ \A i \in 1..n :
                 LET last == /\ RetainedId(i) \notin {None, ""}
                             /\ \A j \in (i + 1)..n : RetainedId(j) # RetainedId(i)
                 IN  /\ ("doc-" \o ToString(i - 1)) \in AnchorTokens <=> last
                     /\ last => /\ RetainedId(i) \in DOMAIN doc_uuid_to_anchor
                                /\ doc_uuid_to_anchor[RetainedId(i)]
                                       = "doc-" \o ToString(i - 1)

\* C2 witness: three documents were retained, the first and the third with
\* the same identifier, and the map holds the third's token for it.
C2_Witness ==
    /\ Mapped
    /\ Len(documents_with_content) = 3
    /\ RetainedId(1) = "a" /\ RetainedId(2) = "b" /\ RetainedId(3) = "a"
    /\ doc_uuid_to_anchor["a"] = "doc-2"
    /\ doc_uuid_to_anchor["b"] = "doc-1"

\* C3: the retained sequence is at any time the subsequence of the entries
\* fetched so far whose fetch succeeded, each with its document and its
\* traversal depth; a failed fetch is followed by the fetch of the next
\* entry; when the fetch loop is left every entry has been tried; and once
\* the first document fetch has ended the run never ends in failure: it goes
\* on to generate the HTML with one section per retained document and to
\* write it.
C3_FetchFailuresIsolated ==
    /\ documents_with_content
           = [k \in 1..Len(Fetched) |->
                 [doc |-> outcomes[Fetched[k]], depth |-> doc_list[Fetched[k]].depth]]
    /\ pc = "fetch" => Len(outcomes) = fetch_i - 1
    /\ Mapped => Len(outcomes) = Len(doc_list)
    /\ (pc = "raised" \/ (pc = "exit" /\ exit_status = 1)) => outcomes = <<>>
    /\ pc \in {"compiled", "exit"} /\ outcomes # <<>>
           => /\ output_file = <<html>>
              /\ Len(html.docs) = Len(documents_with_content)

\* C3 witness: of a chain of three entries the second failed, and the first
\* and the third, at depths 0 and 2, were retained and written.
C3_Witness ==
    /\ pc = "compiled"
    /\ Len(outcomes) = 3
    /\ outcomes[1] # FetchFailed /\ outcomes[2] = FetchFailed /\ outcomes[3] # FetchFailed
    /\ Len(documents_with_content) = 2
    /\ documents_with_content[2].depth = 2
    /\ Len(output_file[1].docs) = 2

\* C4: when get_collection_info or get_collection_documents raises, the
\* exception leaves compile_collection at once: no request is started, no
\* document has been or is fetched, no file is written; main() then exits
\* with status 1 and nothing happens after the exit.
C4_FatalFailures ==
    [][ /\ (pc \in {"collections.info", "collections.documents"} /\ rq = "raised")
            => /\ pc' = "raised"
               /\ rq' = "idle"
        /\ pc' = "raised"
            => /\ output_file' = <<>>
               /\ outcomes' = <<>>
               /\ documents_with_content' = <<>>
               /\ html' = NoHtml
        /\ pc = "raised"
            => /\ pc' = "exit"
               /\ exit_status' = 1
               /\ rq' = "idle"
               /\ output_file' = <<>>
        /\ pc = "exit" => FALSE
      ]_vars

\* C4 witness: the metadata was fetched, the tree was not, and main() has
\* exited with status 1 without an output file.
C4_Witness ==
    /\ pc = "exit"
    /\ exit_status = 1
    /\ collection.name = "Handbook"
    /\ output_file = <<>>
    /\ outcomes = <<>>

\* C6 as stated: the keys of the anchor map are exactly the identifiers of
\* the entries whose fetch succeeded; every retained document is a key, and
\* no identifier whose fetch failed is a key.
C6_AsStated ==
    Mapped
        => /\ DOMAIN doc_uuid_to_anchor = { doc_list[Fetched[k]].doc_id : k \in 1..Len(Fetched) }
           /\ \A i \in 1..Len(documents_with_content) :
                 RetainedId(i) \in DOMAIN doc_uuid_to_anchor
           /\ \A i \in 1..Len(outcomes) :
                 outcomes[i] = FetchFailed => doc_list[i].doc_id \notin DOMAIN doc_uuid_to_anchor

\* C6 amended: the keys of the anchor map are exactly the non-empty
\* identifiers carried by the retained documents (a retained document that
\* carries no identifier is not referenceable); every key is the identifier
\* of an entry whose fetch succeeded, so an identifier all of whose fetches
\* failed is no key.
C6_AnchorKeys ==
    Mapped
        => /\ DOMAIN doc_uuid_to_anchor
                 = { RetainedId(i) : i \in 1..Len(documents_with_content) } \ {None, ""}
           /\ \A key \in DOMAIN doc_uuid_to_anchor :
                 \E k \in 1..Len(Fetched) : doc_list[Fetched[k]].doc_id = key
           /\ \A i \in 1..Len(outcomes) :
                 (\A j \in 1..Len(outcomes) :
                     doc_list[j].doc_id = doc_list[i].doc_id => outcomes[j] = FetchFailed)
                 => doc_list[i].doc_id \notin DOMAIN doc_uuid_to_anchor

\* C6 witness: of three entries the one for "b" failed, one was answered
\* without an identifier and one with "a": the only key is "a".
C6_Witness ==
    /\ Mapped
    /\ Len(outcomes) = 3
    /\ \E i \in 1..3 : outcomes[i] = FetchFailed /\ doc_list[i].doc_id = "b"
    /\ Len(documents_with_content) = 2
    /\ \E i \in 1..2 : RetainedId(i) = None
    /\ DOMAIN doc_uuid_to_anchor = {"a"}

\* C10: the HTML written has one table-of-contents entry and one section per
\* retained document, in retained order; entry i links to #doc-i and carries
\* the class of the traversal depth of the i-th fetched entry and the escaped
\* title of its document; section i has the id doc-i, the same depth class
\* and title, and the content rendered from document i; so each anchor of
\* the anchor map is the id of exactly one section.
C10_TocAndSections ==
    pc = "compiled"
        => LET h == output_file[1]
               n == Len(documents_with_content)
               Class(i) == LET d == doc_list[Fetched[i]].depth
                           IN  IF d = 0 THEN "" ELSE "depth-" \o ToString(d)
               Title(i) == LET t == outcomes[Fetched[i]].title
                           IN  IF t = None THEN "Untitled"
                               ELSE IF t = "A&B" THEN "A&amp;B" ELSE t
           IN  /\ Len(Fetched) = n
               /\ Len(h.toc) = n
               /\ Len(h.docs) = n
               /\ \A i \in 1..n :
                     /\ h.toc[i] = [class |-> Class(i),
                                    href |-> "#doc-" \o ToString(i - 1),
                                    title |-> Title(i)]
                     /\ h.docs[i].id = "doc-" \o ToString(i - 1)
                     /\ h.docs[i].class = "document " \o Class(i)
                     /\ h.docs[i].title = Title(i)
                     /\ h.docs[i].content
                            = ContentHtml(outcomes[Fetched[i]], doc_uuid_to_anchor).fragment
               /\ \A key \in DOMAIN doc_uuid_to_anchor :
                     Cardinality({ i \in 1..n : h.docs[i].id = doc_uuid_to_anchor[key] }) = 1

\* C10 witness: the root of a chain of three failed; its child and grandchild
\* are entries 0 and 1 of the table of contents, at depths 1 and 2.
C10_Witness ==
    /\ pc = "compiled"
    /\ Len(outcomes) = 3
    /\ outcomes[1] = FetchFailed
    /\ Len(output_file[1].toc) = 2
    /\ output_file[1].toc[1].class = "depth-1"
    /\ output_file[1].toc[1].href = "#doc-0"
    /\ output_file[1].toc[2].class = "depth-2"
    /\ output_file[1].docs[2].id = "doc-1"

(***************************************************************************)
(* Properties of _process_mention_links and of repeated compilation.       *)
(***************************************************************************)
IsMention(b) == b.kind = "mention"

IsMentionResult(e) ==
    e.kind \in {"a.mention", "a.mention-link", "span.mention-link-missing"}

\* C5: in every section written, the mention references of the document's
\* text have been replaced, in order: one whose docId is a key of the anchor
\* map by a link to '#' + the anchor of that docId with the display name, one
\* whose docId is no key by a mention-link-missing span with the display
\* name, which is no link.
C5_MentionLinks ==
    pc = "compiled"
        => \A i \in 1..Len(documents_with_content) :
              LET text == DocText(documents_with_content[i].doc)
                  mentions == SelectSeq(text, IsMention)
                  written == SelectSeq(output_file[1].docs[i].content, IsMentionResult)
              IN  /\ Len(written) = Len(mentions)
                  /\ \A k \in 1..Len(mentions) :
                        IF mentions[k].s \in DOMAIN doc_uuid_to_anchor
                        THEN written[k] = [kind |-> "a.mention-link", n |-> 0,
                                           s |-> "#" \o doc_uuid_to_anchor[mentions[k].s],
                                           t |-> mentions[k].t]
                        ELSE written[k] = [kind |-> "span.mention-link-missing", n |-> 0,
                                           s |-> "", t |-> mentions[k].t]

\* C5 witness: document "a", which mentions "b", and document "b", which
\* mentions a document outside the collection, were written: the first
\* mention is a link to #doc-1, the second a span.
C5_Witness ==
    /\ pc = "compiled"
    /\ Len(documents_with_content) = 2
    /\ DOMAIN doc_uuid_to_anchor = {"a", "b"}
    /\ \E k \in 1..Len(output_file[1].docs[1].content) :
          output_file[1].docs[1].content[k]
              = [kind |-> "a.mention-link", n |-> 0, s |-> "#doc-1", t |-> "see b"]
    /\ \E k \in 1..Len(output_file[1].docs[2].content) :
          output_file[1].docs[2].content[k]
              = [kind |-> "span.mention-link-missing", n |-> 0, s |-> "", t |-> "see zz"]

\* the HTML without its timestamp
WithoutTimestamp(file) ==
    IF file = <<>> THEN <<>>
    ELSE <<[file[1] EXCEPT !.head = [title |-> @.title, description |-> @.description]]>>

\* C9: a second compile_collection call on the same instance that reads the
\* same metadata, the same tree and the same documents, with the same fetch
\* outcomes, writes the same HTML as the first, except for the timestamp.
C9_Idempotent ==
    (run = 2 /\ pc = "compiled"
        /\ collection = first.collection /\ outcomes = first.outcomes)
        => WithoutTimestamp(output_file) = WithoutTimestamp(first.output)

(***************************************************************************)
(* Properties of the mermaid placeholders.                                 *)
(***************************************************************************)
IsMermaid(b) == b.kind = "mermaid"

\* what a mermaid block can have become in the content of a section
IsMermaidResult(e) ==
    e.kind \in {"div.mermaid", "div.mermaid+digits", "<p>div.mermaid+digits</p>",
                "MERMAID_PLACEHOLDER", "<p>MERMAID_PLACEHOLDER</p>"}

\* body without its leading and trailing whitespace tokens
Trimmed(body) ==
    LET inner == { i \in 1..Len(body) : body[i] \notin {" ", "\n", "\t"} }
    IN  IF inner = {} THEN <<>>
        ELSE SubSeq(body, CHOOSE i \in inner : \A j \in inner : i <= j,
                          CHOOSE i \in inner : \A j \in inner : i >= j)

\* C11: in the content written for a document with k mermaid blocks, the
\* n-th block (n < k) has become a diagram container whose body is the
\* trimmed body of that block, whether its placeholder was left bare or
\* wrapped in <p>..</p>, and neither a placeholder nor a piece of one is left.
C11_MermaidRoundTrip ==
    pc = "compiled"
        => \A i \in 1..Len(documents_with_content) :
              LET blocks == SelectSeq(DocText(documents_with_content[i].doc), IsMermaid)
                  written == SelectSeq(output_file[1].docs[i].content, IsMermaidResult)
              IN  /\ Len(written) = Len(blocks)
                  /\ \A n \in 1..Len(blocks) :
                        written[n] = [kind |-> "div.mermaid", n |-> 0,
                                      s |-> Trimmed(blocks[n].s), t |-> ""]

(***************************************************************************)
(* Properties of _normalize_list_indentation.                              *)
(***************************************************************************)
\* the number of characters of line before the first that is not in chars
LeadingRun(line, chars) ==
    Cardinality({ i \in 1..Len(line) : \A j \in 1..i : line[j] \in chars })

\* line without its first n characters
Drop(line, n) == SubSeq(line, n + 1, Len(line))

\* the content of line after its leading whitespace begins with '* ' or '- '
IsListLine(line) ==
    LET rest == Drop(line, LeadingRun(line, {" ", "\t", "\n"}))
    IN  Len(rest) >= 2 /\ rest[1] \in {"*", "-"} /\ rest[2] = " "

HasNoText(i) ==
    \/ documents_with_content[i].doc.text = NoText
    \/ documents_with_content[i].doc.text = <<>>

\* C13: the section of a retained document whose text is empty or absent
\* holds exactly the 'No content' paragraph; rendering such a document raises
\* no error; and when the HTML is written every retained document has its
\* section.
C13_NoContent ==
    /\ \A i \in 1..Len(html.docs) :
          HasNoText(i)
              => html.docs[i].content
                     = << [kind |-> "p", n |-> 0, s |-> "<em>No content</em>", t |-> ""] >>
    /\ (pc = "raised" /\ render_i \in 1..Len(documents_with_content))
          => ~HasNoText(render_i)
    /\ pc = "compiled" => Len(output_file[1].docs) = Len(documents_with_content)

(***************************************************************************)
(* Properties of the order of the phases of compile_collection.            *)
(***************************************************************************)
\* C14: in every step of a run: the anchor map changes only in the step
\* that follows the last fetch attempt (every entry of the traversal has its
\* outcome, no request is under way) and precedes the rendering (no section
\* exists yet); once the HTML is being generated the map stays as it is and
\* no request is sent or started; while a request is under way no other
\* begins; the k-th document request asks for the k-th entry of the traversal;
\* and the k-th section added is that of the k-th retained document.
C14_PhasesOrdered ==
    [][ /\ doc_uuid_to_anchor' # doc_uuid_to_anchor
            => /\ pc = "fetch" /\ pc' = "generate"
               /\ rq = "idle"
               /\ Len(outcomes) = Len(doc_list)
               /\ html = [head |-> <<>>, toc |-> <<>>, docs |-> <<>>]
        /\ pc \in {"generate", "render", "compiled"}
            => /\ doc_uuid_to_anchor' = doc_uuid_to_anchor
               /\ posts' = posts
               /\ rq = "idle" /\ rq' = "idle"
               /\ outcomes' = outcomes
               /\ documents_with_content' = documents_with_content
        /\ rq = "running"
            => /\ request'.endpoint = request.endpoint
               /\ request'.id = request.id
               /\ posts' \in {posts, posts + 1}
        /\ (pc = "fetch" /\ rq' = "running" /\ rq # "running")
            => /\ request'.endpoint = "documents.info"
               /\ request'.id = doc_list[Len(outcomes) + 1].doc_id
               /\ Len(html.docs) = 0
        /\ html'.docs # html.docs
            => /\ pc = "render"
               /\ Len(html'.docs) = Len(html.docs) + 1
               /\ SubSeq(html'.docs, 1, Len(html.docs)) = html.docs
               /\ html'.docs[Len(html'.docs)].id = "doc-" \o ToString(Len(html.docs))
               /\ html'.docs[Len(html'.docs)].title
                      = (LET t == documents_with_content[Len(html'.docs)].doc.title
                         IN  IF t = None THEN "Untitled"
                             ELSE IF t = "A&B" THEN "A&amp;B" ELSE t)
      ]_vars

\* C14 witness: three entries were tried, the map with the two identifiers
\* was built, and the first of the sections is rendered.
C14_Witness ==
    /\ pc = "render"
    /\ Len(outcomes) = 3
    /\ Len(doc_list) = 3
    /\ DOMAIN doc_uuid_to_anchor = {"a", "b"}
    /\ Len(html.docs) = 1
    /\ Len(documents_with_content) >= 2

(***************************************************************************)
(* Properties of the resets of the converter.                              *)
(***************************************************************************)
IsRefUse(b) == b.kind = "refuse"

\* C15: every section is the conversion of its document by a converter just
\* reset: a reference-style link [s] of document i is rendered as a link
\* exactly when the text of document i itself defines s, whatever the
\* description and the documents converted before it define; and after the
\* conversion of a document the converter holds the references of that
\* document only.
C15_ConverterReset ==
    /\ \A i \in 1..Len(html.docs) :
          LET text == DocText(documents_with_content[i].doc)
              uses == SelectSeq(text, IsRefUse)
              own == { text[k].s : k \in { j \in 1..Len(text) : text[j].kind = "refdef" } }
              IsRefResult(e) ==
                  \/ e.kind = "a"
                  \/ e.kind = "p" /\ \E k \in 1..Len(uses) : e.s = "[" \o uses[k].s \o "]"
              written == SelectSeq(html.docs[i].content, IsRefResult)
          IN  /\ Len(written) = Len(uses)
              /\ \A k \in 1..Len(uses) :
                    written[k] = IF uses[k].s \in own
                                 THEN [kind |-> "a", n |-> 0, s |-> "url:" \o uses[k].s,
                                       t |-> uses[k].s]
                                 ELSE [kind |-> "p", n |-> 0,
                                       s |-> "[" \o uses[k].s \o "]", t |-> ""]
    /\ (pc = "render" /\ render_i > 1)
          => LET text == DocText(documents_with_content[render_i - 1].doc)
             IN  md_references
                    = { text[k].s : k \in { j \in 1..Len(text) : text[j].kind = "refdef" } }

\* C15 witness: document "a", which defines the reference r, was converted
\* before document "b", which uses r without defining it: the section of
\* "b" holds the literal [r].
C15_Witness ==
    /\ pc = "compiled"
    /\ Len(documents_with_content) = 2
    /\ documents_with_content[1].doc.id = "a"
    /\ documents_with_content[2].doc.id = "b"
    /\ \E k \in 1..Len(html.docs[2].content) :
          html.docs[2].content[k] = [kind |-> "p", n |-> 0, s |-> "[r]", t |-> ""]

(***************************************************************************)
(* Properties of _make_request for answers with another status.            *)
(***************************************************************************)
\* the latest requests.post was answered with a status other than 200 and 401
OtherStatus ==
    /\ last_resp.kind = "response"
    /\ last_resp.status \notin {HttpOk, HttpUnauthorized}

\* C16: an answer whose status is neither 200 nor 401 is retried after the
\* wait retry_delay * 2^attempt while attempts are left, the call raises
\* when the last of the max_retries + 1 attempts is answered so, and the
\* call returns a result only for an answer with the status 200.
C16_AsStated ==
    /\ (rq = "running" /\ OtherStatus)
          => /\ attempt >= 1
             /\ attempt <= max_retries
             /\ posts >= attempt
             /\ Len(sleeps) = attempt
             /\ sleeps[attempt] = retry_delay * (2 ^ (attempt - 1))
    /\ (rq \in {"returned", "raised"} /\ OtherStatus)
          => /\ rq = "raised"
             /\ attempt = max_retries
    /\ rq = "returned" => last_resp.status = HttpOk

====
